---- MODULE Spec2Model ----
(***************************************************************************)
(* A model of parse.py: the measurement-log parser of the QUIC/OpenSAND    *)
(* evaluation.  The record extractors, the JSON loader, the parameter      *)
(* decoder, the type normaliser and the parse() loop are translated from   *)
(* the source.  Text is modelled as sequences of one-character strings,    *)
(* log lines as records of their fields, and numbers with one fractional   *)
(* digit as integer counts of tenths.                                      *)
(***************************************************************************)
EXTENDS Integers, Sequences, FiniteSets, TLC

VARIABLES
    tree,     \* the input root directory: its entries in os.listdir order
    pc,       \* control location of the running operation
    di,       \* index into tree of the directory parse() is working on
    tables,   \* the eight accumulated tables of parse()
    calls,    \* log of extractor invocations made by parse()
    nodata,   \* the kinds whose "No data ..." branch parse() has taken
    exc,      \* the exception that escaped, "none" while there is none
    arg,      \* the input of the function under check (unit specifications)
    res       \* its result

vars == <<tree, pc, di, tables, calls, nodata, exc, arg, res>>

(***************************************************************************)
(* Bounds of the model.                                                    *)
(***************************************************************************)
MaxDirs == 2
MaxFiles == 2
MaxLines == 3
MaxRows == 2

(***************************************************************************)
(* Generic helpers.                                                        *)
(***************************************************************************)
SeqsUpTo(S, n) == UNION {[1..k -> S] : k \in 0..n}

Range(s) == {s[i] : i \in DOMAIN s}

RECURSIVE Pow2(_)
Pow2(n) == IF n = 0 THEN 1 ELSE 2 * Pow2(n - 1)

RECURSIVE Pow10(_)
Pow10(n) == IF n = 0 THEN 1 ELSE 10 * Pow10(n - 1)

(***************************************************************************)
(* Python integers are unbounded; the factors of bps_factor reach 2^80.    *)
(* An integer n > 0 is held as [m, e] with n = m * 2^e and m odd.          *)
(***************************************************************************)
RECURSIVE BigNorm(_, _)
BigNorm(m, e) == IF m # 0 /\ m % 2 = 0 THEN BigNorm(m \div 2, e + 1) ELSE [m |-> m, e |-> e]

BigOf(n) == BigNorm(n, 0)

\* the Python expression 2 ** k
BigPow2(k) == BigNorm(1, k)

\* a < b for two such integers whose odd parts are below 2^20
BigLess(a, b) ==
    IF a.e <= b.e
    THEN IF b.e - a.e >= 20 THEN TRUE ELSE a.m < b.m * Pow2(b.e - a.e)
    ELSE IF a.e - b.e >= 20 THEN FALSE ELSE a.m * Pow2(a.e - b.e) < b.m

\* the value as a machine integer, for the values that fit
BigSmall(a) == a.m * Pow2(a.e)

(***************************************************************************)
(* bps_factor (parse.py 54-57).                                            *)
(***************************************************************************)
LowerLetters == {"k", "m", "g", "t", "p", "e", "z", "y", "x"}
UpperLetters == {"K", "M", "G", "T", "P", "E", "Z", "Y", "X"}

\* str.upper() on a string of at most one letter
Upper(p) ==
    CASE p = "k" -> "K" [] p = "m" -> "M" [] p = "g" -> "G" [] p = "t" -> "T"
      [] p = "p" -> "P" [] p = "e" -> "E" [] p = "z" -> "Z" [] p = "y" -> "Y"
      [] p = "x" -> "X" [] OTHER -> p

\* the dict literal of line 55: 2**10 .. 2**50, then 2*60, 2*70, 2*80
factor == [K |-> BigPow2(10), M |-> BigPow2(20), G |-> BigPow2(30), T |-> BigPow2(40),
           P |-> BigPow2(50), E |-> BigOf(2 * 60), Z |-> BigOf(2 * 70), Y |-> BigOf(2 * 80)]

bps_factor(prefix) ==
    LET up == Upper(prefix)
    IN  IF up \in DOMAIN factor THEN factor[up] ELSE BigOf(1)

(***************************************************************************)
(* Table cells.  t is the kind of value held: "int", "float" (n counts     *)
(* tenths, or thousandths when s is "/1000"), "bool" (n is 0 or 1), "str"  *)
(* (s is the text, or "#" for the decimal digits of n) and "nan" (None or  *)
(* NaN).                                                                   *)
(***************************************************************************)
IntC(n) == [t |-> "int", n |-> n, s |-> ""]
FloatC(n10) == [t |-> "float", n |-> n10, s |-> ""]
MilliC(n1000) == [t |-> "float", n |-> n1000, s |-> "/1000"]
BoolC(b) == [t |-> "bool", n |-> IF b THEN 1 ELSE 0, s |-> ""]
StrC(s) == [t |-> "str", n |-> 0, s |-> s]
DigitsC(n) == [t |-> "str", n |-> n, s |-> "#"]
NanC == [t |-> "nan", n |-> 0, s |-> ""]
RaisedC == [t |-> "raised", n |-> 0, s |-> ""]

(***************************************************************************)
(* Tables (pandas DataFrame): the column names in order and the rows in    *)
(* order, each row a function from the column names to cells.              *)
(***************************************************************************)
\* pd.DataFrame(columns=cols)
EmptyDF(cols) == [cols |-> cols, rows |-> <<>>]

\* df.append(row, ignore_index=True) for a dict row
AppendRow(df, row) ==
    [cols |-> df.cols,
     rows |-> Append(df.rows, [c \in Range(df.cols) |-> IF c \in DOMAIN row THEN row[c] ELSE NanC])]

\* df.append(other, ignore_index=True): the columns of df, then the new ones of
\* other; cells of columns a row does not have are NaN
AppendDF(df, other) ==
    LET newcols == df.cols \o SelectSeq(other.cols, LAMBDA c : c \notin Range(df.cols))
        Widen(r) == [c \in Range(newcols) |-> IF c \in DOMAIN r THEN r[c] ELSE NanC]
    IN  [cols |-> newcols,
         rows |-> [i \in 1..Len(df.rows) |-> Widen(df.rows[i])]
                  \o [i \in 1..Len(other.rows) |-> Widen(other.rows[i])]]

\* df[name] = value: a new last column, or the existing column overwritten
SetColumn(df, name, value) ==
    LET newcols == IF name \in Range(df.cols) THEN df.cols ELSE Append(df.cols, name)
    IN  [cols |-> newcols,
         rows |-> [i \in 1..Len(df.rows) |->
                     [c \in Range(newcols) |-> IF c = name THEN value ELSE df.rows[i][c]]]]

(***************************************************************************)
(* fix_dtypes (parse.py 419-455).                                          *)
(***************************************************************************)
dtypes == [protocol |-> "str", pep |-> "bool", sat |-> "str", rate |-> "int32",
           loss |-> "float32", queue |-> "int32", txq |-> "int32", run |-> "int32",
           second |-> "int32", bps |-> "float64", bytes |-> "int32",
           packets_received |-> "int32", cwnd |-> "int32", packets_sent |-> "int32",
           packets_lost |-> "int32", con_est |-> "float64", ttfb |-> "float64",
           omitted |-> "bool", rtt |-> "int32", seq |-> "int32", ttl |-> "int32",
           rtt_min |-> "float32", rtt_avg |-> "float32", rtt_max |-> "float32",
           rtt_mdev |-> "float32"]

\* a conversion that differs from Cast in int32: every number is divided by
\* ten, whether or not it is already an integer
CastBadTrunc(ty, c) ==
    CASE ty = "int32" ->
            IF c.t = "nan" \/ (c.t = "str" /\ c.s # "#") THEN RaisedC
            ELSE IntC(c.n \div 10)
      [] ty \in {"float32", "float64"} ->
            CASE c.t = "float" -> c
              [] c.t = "int" -> FloatC(c.n * 10)
              [] c.t = "bool" -> FloatC(c.n * 10)
              [] c.t = "str" -> IF c.s = "#" THEN FloatC(c.n * 10) ELSE RaisedC
              [] OTHER -> NanC
      [] ty = "bool" ->
            CASE c.t = "bool" -> c
              [] c.t = "nan" -> BoolC(TRUE)
              [] c.t = "str" -> BoolC(TRUE)
              [] OTHER -> BoolC(c.n # 0)
      [] OTHER ->
            CASE c.t = "str" -> c
              [] c.t = "nan" -> StrC("nan")
              [] OTHER -> DigitsC(c.n)

\* one value converted by astype; RaisedC when the conversion raises
Cast(ty, c) ==
    CASE ty = "int32" ->
            CASE c.t = "int" -> c
              [] c.t = "float" -> IntC(c.n \div (IF c.s = "/1000" THEN 1000 ELSE 10))
              [] c.t = "bool" -> IntC(c.n)
              [] c.t = "str" -> IF c.s = "#" THEN IntC(c.n) ELSE RaisedC
              [] OTHER -> RaisedC
      [] ty \in {"float32", "float64"} ->
            CASE c.t = "float" -> c
              [] c.t = "int" -> FloatC(c.n * 10)
              [] c.t = "bool" -> FloatC(c.n * 10)
              [] c.t = "str" -> IF c.s = "#" THEN FloatC(c.n * 10) ELSE RaisedC
              [] OTHER -> NanC
      [] ty = "bool" ->
            CASE c.t = "bool" -> c
              [] c.t = "nan" -> BoolC(TRUE)
              [] c.t = "str" -> BoolC(TRUE)
              [] OTHER -> BoolC(c.n # 0)
      [] OTHER ->
            CASE c.t = "str" -> c
              [] c.t = "nan" -> StrC("nan")
              [] OTHER -> DigitsC(c.n)

\* df.astype({col: dtypes[col] for col in cols}); ok is FALSE when it raises
AsType(df, out) ==
    IF \E i \in 1..Len(out) : \E c \in DOMAIN out[i] : out[i][c] = RaisedC
    THEN [ok |-> FALSE, df |-> df]
    ELSE [ok |-> TRUE, df |-> [cols |-> df.cols, rows |-> out]]

fix_dtypes(df) ==
    AsType(df, [i \in 1..Len(df.rows) |->
                  [c \in DOMAIN df.rows[i] |->
                     IF c \in DOMAIN dtypes THEN Cast(dtypes[c], df.rows[i][c]) ELSE df.rows[i][c]]])

(***************************************************************************)
(* Text and numbers.  A text is a sequence of one-character strings.       *)
(***************************************************************************)
Digits == {"0", "1", "2", "3", "4", "5", "6", "7", "8", "9"}

DigitVal(c) ==
    CASE c = "0" -> 0 [] c = "1" -> 1 [] c = "2" -> 2 [] c = "3" -> 3 [] c = "4" -> 4
      [] c = "5" -> 5 [] c = "6" -> 6 [] c = "7" -> 7 [] c = "8" -> 8 [] OTHER -> 9

AllDigits(txt) == \A i \in DOMAIN txt : txt[i] \in Digits

RECURSIVE DigitsVal(_)
DigitsVal(txt) ==
    IF txt = <<>> THEN 0
    ELSE 10 * DigitsVal(SubSeq(txt, 1, Len(txt) - 1)) + DigitVal(txt[Len(txt)])

\* int(txt): a ValueError unless txt is a non-empty run of digits
IntOf(txt) ==
    IF txt # <<>> /\ AllDigits(txt) THEN [ok |-> TRUE, n |-> DigitsVal(txt)]
    ELSE [ok |-> FALSE, n |-> 0]

\* the position of the first "." of txt, 0 when it has none
FirstDot(txt) ==
    IF \E i \in DOMAIN txt : txt[i] = "."
    THEN CHOOSE i \in DOMAIN txt : txt[i] = "." /\ \A j \in 1..(i - 1) : txt[j] # "."
    ELSE 0

\* float(txt) * 1000.0, as a count of tenths: digits, "." and digits with at
\* least one digit in all; anything else is a ValueError
FloatTimes1000(txt) ==
    LET dot == FirstDot(txt)
        ip == IF dot = 0 THEN txt ELSE SubSeq(txt, 1, dot - 1)
        fp == IF dot = 0 THEN <<>> ELSE SubSeq(txt, dot + 1, Len(txt))
    IN  IF AllDigits(ip) /\ AllDigits(fp) /\ Len(ip) + Len(fp) > 0 /\ Len(fp) <= 4
        THEN [ok |-> TRUE, n |-> (DigitsVal(ip \o fp) * 10000) \div Pow10(Len(fp))]
        ELSE [ok |-> FALSE, n |-> 0]

(***************************************************************************)
(* Files and log lines.  A file name is held by the fields its pattern     *)
(* looks at: the stem ("quic_client" for quic[_pep]_<run>_client.txt, ...),*)
(* whether it has the _pep infix, and the run number.  A line is held by   *)
(* its leading words (tag) and the fields that follow them.                *)
(***************************************************************************)
Line(tag, a, b, c, d, p, txt) == [tag |-> tag, a |-> a, b |-> b, c |-> c, d |-> d, p |-> p, txt |-> txt]

JunkLine == Line("junk", 0, 0, 0, 0, "", <<>>)

\* second <sec>: <x10/10> <p>bit/s (<bytes> bytes received, <pkts> packets received)
SecondLine(sec, x10, p, bytes, pkts) == Line("second", sec, x10, bytes, pkts, p, <<>>)

\* connection ... second <sec> send window: <cwnd> packets sent: <sent> packets lost: <lost>
ConnectionLine(sec, cwnd, sent, lost) == Line("connection", sec, cwnd, sent, lost, "", <<>>)

\* <label><txt>, for the four labels of the TTFB files
LabelLine(label, txt) == Line(label, 0, 0, 0, 0, "", txt)

\* 64 bytes from h: icmp_seq=<seq> ttl=<ttl> time=<txt> ms
ReplyLine(seq, ttl, txt) == Line("reply", seq, ttl, 0, 0, "", txt)

\* <sent> packets transmitted, <recv> received
StatsLine(sent, recv) == Line("stats", sent, recv, 0, 0, "", <<>>)

\* rtt min/avg/max/mdev = <a>/<b>/<c>/<d> ms, the four in tenths
RttLine(a, b, c, d) == Line("rtt", a, b, c, d, "", <<>>)

File(stem, pep, run, lines, text) ==
    [stem |-> stem, pep |-> pep, run |-> run, isfile |-> TRUE, lines |-> lines, text |-> text]

\* re.search(r"^<stem with optional _pep>$", file_name) on a regular file
NameMatches(f, stem, pep) == f.isfile /\ f.stem = stem /\ f.pep = pep

\* what an extractor call ends with: "return df" (st "ok"), "return None"
\* (st "none") or an exception that leaves it (st "raise")
ExtractorRaise(e) == [st |-> "raise", df |-> EmptyDF(<<>>), df2 |-> EmptyDF(<<>>), exc |-> e]
ExtractorNone == [st |-> "none", df |-> EmptyDF(<<>>), df2 |-> EmptyDF(<<>>), exc |-> "none"]

\* a return that differs from ExtractorOk: None instead of an empty table
ExtractorOkNoneIfEmpty(df) ==
    IF df.rows = <<>> THEN ExtractorNone
    ELSE [st |-> "ok", df |-> df, df2 |-> EmptyDF(<<>>), exc |-> "none"]

\* the table an extractor returns (lines 99-102 and the like)
ExtractorOk(df) == [st |-> "ok", df |-> df, df2 |-> EmptyDF(<<>>), exc |-> "none"]

(***************************************************************************)
(* parse_quic_client (parse.py 60-102).                                    *)
(***************************************************************************)
\* the line pattern of lines 84-87: the prefix group is [a-z]?
QuicClientLineMatch(l) == l.tag = "second" /\ l.p \in LowerLetters \cup {""}

\* int(float(X) * bps_factor(P)) for X held in tenths
BpsOf(x10, p) == (x10 * BigSmall(bps_factor(p))) \div 10

QuicClientRow(run, l) ==
    [run |-> IntC(run), second |-> IntC(l.a), bps |-> IntC(BpsOf(l.b, l.p)),
     bytes |-> IntC(l.c), packets_received |-> IntC(l.d)]

RECURSIVE QuicClientLines(_, _, _)
QuicClientLines(df, run, lines) ==
    IF lines = <<>> THEN df
    ELSE QuicClientLines(IF QuicClientLineMatch(Head(lines))
                         THEN AppendRow(df, QuicClientRow(run, Head(lines)))
                         ELSE df,
                         run, Tail(lines))

RECURSIVE QuicClientFiles(_, _, _)
QuicClientFiles(df, files, pep) ==
    IF files = <<>> THEN df
    ELSE QuicClientFiles(IF NameMatches(Head(files), "quic_client", pep)
                         THEN QuicClientLines(df, Head(files).run, Head(files).lines)
                         ELSE df,
                         Tail(files), pep)

parse_quic_client(files, pep) ==
    ExtractorOk(QuicClientFiles(EmptyDF(<<"run", "second", "bps", "bytes", "packets_received">>), files, pep))

(***************************************************************************)
(* parse_quic_server (parse.py 153-194).                                   *)
(***************************************************************************)
QuicServerRow(run, l) ==
    [run |-> IntC(run), second |-> IntC(l.a), cwnd |-> IntC(l.b),
     packets_sent |-> IntC(l.c), packets_lost |-> IntC(l.d)]

RECURSIVE QuicServerLines(_, _, _)
QuicServerLines(df, run, lines) ==
    IF lines = <<>> THEN df
    ELSE QuicServerLines(IF Head(lines).tag = "connection"
                         THEN AppendRow(df, QuicServerRow(run, Head(lines)))
                         ELSE df,
                         run, Tail(lines))

RECURSIVE QuicServerFiles(_, _, _)
QuicServerFiles(df, files, pep) ==
    IF files = <<>> THEN df
    ELSE QuicServerFiles(IF NameMatches(Head(files), "quic_server", pep)
                         THEN QuicServerLines(df, Head(files).run, Head(files).lines)
                         ELSE df,
                         Tail(files), pep)

parse_quic_server(files, pep) ==
    ExtractorOk(QuicServerFiles(EmptyDF(<<"run", "second", "cwnd", "packets_sent", "packets_lost">>), files, pep))

(***************************************************************************)
(* parse_quic_ttfb (parse.py 105-150) and parse_tcp_ttfb (parse.py         *)
(* 240-285).  The two differ in their labels and in the conversion of the  *)
(* text that follows the label.                                            *)
(***************************************************************************)
\* int(line.split(':', 1)[1].strip()[:-2])
AsIntCell(r) == [ok |-> r.ok, cell |-> IntC(r.n)]
AsFloatCell(r) == [ok |-> r.ok, cell |-> FloatC(r.n)]

QuicTtfbValue(txt) == AsIntCell(IntOf(IF Len(txt) <= 2 THEN <<>> ELSE SubSeq(txt, 1, Len(txt) - 2)))

\* float(line.split('=', 1)[1].strip()) * 1000.0
TcpTtfbValue(txt) == AsFloatCell(FloatTimes1000(txt))

TtfbValue(proto, txt) == IF proto = "quic" THEN QuicTtfbValue(txt) ELSE TcpTtfbValue(txt)

ConEstLabel(proto) == IF proto = "quic" THEN "connection establishment time:" ELSE "established="
TtfbLabel(proto) == IF proto = "quic" THEN "time to first byte:" ELSE "ttfb="

\* the loop over the lines of one file: acc holds con_est, ttfb (NanC for None),
\* the number of duplicate warnings and whether a conversion raised
\* the converted value stored, or the ValueError of the conversion
TtfbStore(acc, field, v) ==
    IF v.ok THEN [acc EXCEPT ![field] = v.cell] ELSE [acc EXCEPT !.raised = TRUE]

TtfbLine(proto, acc, l) ==
    IF l.tag = ConEstLabel(proto)
    THEN IF acc.con_est # NanC
         THEN [acc EXCEPT !.dups = @ + 1]
         ELSE TtfbStore(acc, "con_est", TtfbValue(proto, l.txt))
    ELSE IF l.tag = TtfbLabel(proto)
    THEN IF acc.ttfb # NanC
         THEN [acc EXCEPT !.dups = @ + 1]
         ELSE TtfbStore(acc, "ttfb", TtfbValue(proto, l.txt))
    ELSE acc

RECURSIVE TtfbLines(_, _, _)
TtfbLines(proto, acc, lines) ==
    IF lines = <<>> \/ acc.raised THEN acc
    ELSE TtfbLines(proto, TtfbLine(proto, acc, Head(lines)), Tail(lines))

TtfbFile(proto, f) ==
    TtfbLines(proto, [con_est |-> NanC, ttfb |-> NanC, dups |-> 0, raised |-> FALSE], f.lines)

\* the loop over the files: st holds the table so far and whether a file raised
\* lines 141-145: the row of one file, unless reading it raised
TtfbAppend(st, run, acc) ==
    IF acc.raised THEN [st EXCEPT !.raised = TRUE]
    ELSE [st EXCEPT !.df = AppendRow(@, [run |-> IntC(run), con_est |-> acc.con_est, ttfb |-> acc.ttfb])]

RECURSIVE TtfbFiles(_, _, _, _)
TtfbFiles(proto, st, files, pep) ==
    IF files = <<>> \/ st.raised THEN st
    ELSE TtfbFiles(proto,
                   IF NameMatches(Head(files), IF proto = "quic" THEN "quic_ttfb" ELSE "tcp_ttfb", pep)
                   THEN TtfbAppend(st, Head(files).run, TtfbFile(proto, Head(files)))
                   ELSE st,
                   Tail(files), pep)

TtfbResult(st) == IF st.raised THEN ExtractorRaise("ValueError") ELSE ExtractorOk(st.df)

parse_ttfb(proto, files, pep) ==
    TtfbResult(TtfbFiles(proto, [df |-> EmptyDF(<<"run", "con_est", "ttfb">>), raised |-> FALSE], files, pep))

parse_quic_ttfb(files, pep) == parse_ttfb("quic", files, pep)

parse_tcp_ttfb(files, pep) == parse_ttfb("tcp", files, pep)

(***************************************************************************)
(* parse_ping (parse.py 334-369).                                          *)
(***************************************************************************)
\* the reply pattern of line 346: time=(\d+) ms
PingReplyMatch(l) == l.tag = "reply" /\ l.txt # <<>> /\ AllDigits(l.txt)

\* a loop body that differs from PingLine: a key of summary_data that is
\* already set is kept
PingLineFirstTrailerWins(acc, l) ==
    IF PingReplyMatch(l)
    THEN [acc EXCEPT !.raw = Append(@, [seq |-> DigitsC(l.a), ttl |-> DigitsC(l.b),
                                        rtt |-> DigitsC(DigitsVal(l.txt))])]
    ELSE IF l.tag = "stats"
    THEN [acc EXCEPT !.packets = IF @ = <<>> THEN <<IntC(l.a), IntC(l.b)>> ELSE @]
    ELSE IF l.tag = "rtt"
    THEN [acc EXCEPT !.rtts = IF @ = <<>> THEN <<FloatC(l.a), FloatC(l.b), FloatC(l.c), FloatC(l.d)>> ELSE @]
    ELSE acc

\* the loop over the lines: raw_data and summary_data
PingLine(acc, l) ==
    IF PingReplyMatch(l)
    THEN [acc EXCEPT !.raw = Append(@, [seq |-> DigitsC(l.a), ttl |-> DigitsC(l.b),
                                        rtt |-> DigitsC(DigitsVal(l.txt))])]
    ELSE IF l.tag = "stats"
    THEN [acc EXCEPT !.packets = <<IntC(l.a), IntC(l.b)>>]
    ELSE IF l.tag = "rtt"
    THEN [acc EXCEPT !.rtts = <<FloatC(l.a), FloatC(l.b), FloatC(l.c), FloatC(l.d)>>]
    ELSE acc

RECURSIVE PingLines(_, _)
PingLines(acc, lines) ==
    IF lines = <<>> THEN acc ELSE PingLines(PingLine(acc, Head(lines)), Tail(lines))

\* pd.DataFrame(raw_data): no column at all for an empty list
PingRawDF(raw) ==
    [cols |-> IF raw = <<>> THEN <<>> ELSE <<"seq", "ttl", "rtt">>, rows |-> raw]

\* pd.DataFrame({k: [v] for k, v in summary_data.items()}): the keys in
\* insertion order, one row when there is a key and none otherwise
PingSummaryDF(acc, order) ==
    LET pcols == IF acc.packets = <<>> THEN <<>> ELSE <<"packets_sent", "packets_received">>
        rcols == IF acc.rtts = <<>> THEN <<>> ELSE <<"rtt_min", "rtt_avg", "rtt_max", "rtt_mdev">>
        cols == IF order = "rtt" THEN rcols \o pcols ELSE pcols \o rcols
        Val(c) == CASE c = "packets_sent" -> acc.packets[1]
                    [] c = "packets_received" -> acc.packets[2]
                    [] c = "rtt_min" -> acc.rtts[1]
                    [] c = "rtt_avg" -> acc.rtts[2]
                    [] c = "rtt_max" -> acc.rtts[3]
                    [] OTHER -> acc.rtts[4]
    IN  [cols |-> cols,
         rows |-> IF cols = <<>> THEN <<>> ELSE << [c \in Range(cols) |-> Val(c)] >>]

PingFiles(files) == SelectSeq(files, LAMBDA f : f.isfile /\ f.stem = "ping")

\* which of the two trailer kinds comes first in the file: the insertion
\* order of the keys of summary_data
FirstTrailer(lines) ==
    LET tr == SelectSeq(lines, LAMBDA l : ~PingReplyMatch(l) /\ l.tag \in {"stats", "rtt"})
    IN  IF tr = <<>> THEN "stats" ELSE Head(tr).tag

\* lines 366-369
PingResult(acc, order) ==
    [st |-> "ok", df |-> PingRawDF(acc.raw), df2 |-> PingSummaryDF(acc, order), exc |-> "none"]

PingFile(f) ==
    PingResult(PingLines([raw |-> <<>>, packets |-> <<>>, rtts |-> <<>>], f.lines), FirstTrailer(f.lines))

parse_ping(files) ==
    IF PingFiles(files) = <<>> THEN ExtractorNone ELSE PingFile(Head(PingFiles(files)))

(***************************************************************************)
(* JSON.  A JSON text is a sequence of tokens: the punctuation characters, *)
(* the digits and "." one character each, " " for white space, the         *)
(* literals "true" and "false", and a string literal as one token that     *)
(* starts with "$".  Any other token is a character that starts no value.  *)
(* A value is held as [k, n, frac, keys, items]: a number by its digits n  *)
(* and its count frac of fraction digits, an array by its items, an object *)
(* by its keys and their values, a string by its token.                    *)
(***************************************************************************)
StringTokens == {"$intervals", "$sum", "$start", "$streams", "$bits_per_second", "$bytes",
                 "$omitted", "$snd_cwnd", "$retransmits", "$rtt", "$s"}

JNum(n, frac) == [k |-> "num", n |-> n, frac |-> frac, keys |-> <<>>, items |-> <<>>]
JBool(b) == [k |-> "bool", n |-> IF b THEN 1 ELSE 0, frac |-> 0, keys |-> <<>>, items |-> <<>>]
JStr(tok) == [k |-> "str", n |-> 0, frac |-> 0, keys |-> <<tok>>, items |-> <<>>]
JArr(items) == [k |-> "arr", n |-> 0, frac |-> 0, keys |-> <<>>, items |-> items]
JObj(keys, items) == [k |-> "obj", n |-> 0, frac |-> 0, keys |-> keys, items |-> items]
JNone == [k |-> "none", n |-> 0, frac |-> 0, keys |-> <<>>, items |-> <<>>]

ScanFail == [ok |-> FALSE, val |-> JNone, end |-> 0]
ScanOk(v, end) == [ok |-> TRUE, val |-> v, end |-> end]

\* the token at 0-based position pos, "" past the end
At(s, pos) == IF pos < Len(s) THEN s[pos + 1] ELSE ""

\* WHITESPACE.match(s, pos).end()
RECURSIVE SkipWs(_, _)
SkipWs(s, pos) == IF At(s, pos) = " " THEN SkipWs(s, pos + 1) ELSE pos

\* the end of the run of digits that starts at pos
RECURSIVE DigitRun(_, _)
DigitRun(s, pos) == IF At(s, pos) \in Digits THEN DigitRun(s, pos + 1) ELSE pos

\* NUMBER_RE: (0|[1-9]\d*)(\.\d+)? matched at pos, where a digit stands (the
\* sign and the exponent part need characters the texts here do not have)
ScanNumber(s, pos) ==
    LET iend == IF At(s, pos) = "0" THEN pos + 1 ELSE DigitRun(s, pos)
        fend == IF At(s, iend) = "." /\ At(s, iend + 1) \in Digits THEN DigitRun(s, iend + 1) ELSE iend
        frac == IF fend = iend THEN 0 ELSE fend - iend - 1
        digs == SubSeq(s, pos + 1, iend) \o SubSeq(s, iend + 2, fend)
    IN  ScanOk(JNum(DigitsVal(digs), frac), fend)

RECURSIVE ScanValue(_, _), ScanArrayItems(_, _, _), ScanObjectItems(_, _, _, _)
\* scan_once(s, pos)
ScanValue(s, pos) ==
    LET c == At(s, pos)
    IN  CASE c \in StringTokens -> ScanOk(JStr(c), pos + 1)
          [] c = "{" ->
                LET p == SkipWs(s, pos + 1)
                IN  IF At(s, p) = "}" THEN ScanOk(JObj(<<>>, <<>>), p + 1)
                    ELSE ScanObjectItems(s, p, <<>>, <<>>)
          [] c = "[" ->
                LET p == SkipWs(s, pos + 1)
                IN  IF At(s, p) = "]" THEN ScanOk(JArr(<<>>), p + 1)
                    ELSE ScanArrayItems(s, p, <<>>)
          [] c = "true" -> ScanOk(JBool(TRUE), pos + 1)
          [] c = "false" -> ScanOk(JBool(FALSE), pos + 1)
          [] c \in Digits -> ScanNumber(s, pos)
          [] OTHER -> ScanFail

\* the loop of JSONArray, at the start of an item
ScanArrayItems(s, pos, items) ==
    LET r == ScanValue(s, pos)
        p == SkipWs(s, r.end)
    IN  IF ~r.ok THEN ScanFail
        ELSE IF At(s, p) = "]" THEN ScanOk(JArr(Append(items, r.val)), p + 1)
        ELSE IF At(s, p) = "," THEN ScanArrayItems(s, SkipWs(s, p + 1), Append(items, r.val))
        ELSE ScanFail

\* the loop of JSONObject, at the start of a key
ScanObjectItems(s, pos, keys, items) ==
    IF At(s, pos) \notin StringTokens THEN ScanFail
    ELSE LET pc1 == SkipWs(s, pos + 1)
             r == ScanValue(s, SkipWs(s, pc1 + 1))
             p == SkipWs(s, r.end)
         IN  IF At(s, pc1) # ":" THEN ScanFail
             ELSE IF ~r.ok THEN ScanFail
             ELSE IF At(s, p) = "}"
             THEN ScanOk(JObj(Append(keys, At(s, pos)), Append(items, r.val)), p + 1)
             ELSE IF At(s, p) = ","
             THEN ScanObjectItems(s, SkipWs(s, p + 1), Append(keys, At(s, pos)), Append(items, r.val))
             ELSE ScanFail

\* json.loads(s): st is "ok", "extra" (JSONDecodeError "Extra data" at pos)
\* or "error" (any other JSONDecodeError)
JsonLoads(s) ==
    LET r == ScanValue(s, SkipWs(s, 0))
        p == SkipWs(s, r.end)
    IN  IF ~r.ok THEN [st |-> "error", val |-> JNone, pos |-> 0]
        ELSE IF p # Len(s) THEN [st |-> "extra", val |-> JNone, pos |-> p]
        ELSE [st |-> "ok", val |-> r.val, pos |-> p]

(***************************************************************************)
(* load_json_file (parse.py 26-51).  JNone stands for None.                *)
(***************************************************************************)
\* the value json.loads returned, None when it raised
ValueOrNone(r) == IF r.st = "ok" THEN r.val ELSE JNone

\* a handler that differs from Loaded: no second attempt after "Extra data"
LoadedNoRetry(text, r) == ValueOrNone(r)

\* lines 37-51 for the outcome r of json.load(file)
Loaded(text, r) ==
    IF r.st = "extra" THEN ValueOrNone(JsonLoads(SubSeq(text, 1, r.pos))) ELSE ValueOrNone(r)

load_json_file(isfile, text) == IF ~isfile THEN JNone ELSE Loaded(text, JsonLoads(text))

(***************************************************************************)
(* parse_tcp_client (parse.py 197-237) and parse_tcp_server (parse.py      *)
(* 288-331).  Every lookup and conversion of the interval loop either      *)
(* yields a value or raises; [ok, val] carries which.                      *)
(***************************************************************************)
Raised == [ok |-> FALSE, val |-> JNone]
Got(v) == [ok |-> TRUE, val |-> v]

\* v[key] for a string key: KeyError on an object without it, TypeError on
\* anything that is not an object
GetKey(r, key) ==
    IF ~r.ok \/ r.val.k # "obj" \/ \A i \in DOMAIN r.val.keys : r.val.keys[i] # key THEN Raised
    ELSE LET last == CHOOSE i \in DOMAIN r.val.keys :
                        r.val.keys[i] = key /\ \A j \in DOMAIN r.val.keys : r.val.keys[j] = key => j <= i
         IN  Got(r.val.items[last])

\* v[0]: the first item of a non-empty array, an exception otherwise
GetFirst(r) ==
    IF r.ok /\ r.val.k = "arr" /\ r.val.items # <<>> THEN Got(r.val.items[1]) ELSE Raised

\* the values "for interval in v" runs over: the items of an array, the keys
\* of an object; TypeError on a number or a boolean
IterOf(r) ==
    IF ~r.ok THEN [ok |-> FALSE, items |-> <<>>]
    ELSE CASE r.val.k = "arr" -> [ok |-> TRUE, items |-> r.val.items]
           [] r.val.k = "obj" -> [ok |-> TRUE, items |-> [i \in DOMAIN r.val.keys |-> JStr(r.val.keys[i])]]
           [] r.val.k = "str" -> [ok |-> TRUE, items |-> << r.val >>]
           [] OTHER -> [ok |-> FALSE, items |-> <<>>]

\* the tenths in a number
NumTenths(v) == (v.n * 10) \div Pow10(v.frac)

\* round(x) of a number: to the nearest integer, a tie to the even one
RoundOf(r) ==
    IF ~r.ok \/ r.val.k \notin {"num", "bool"} THEN [ok |-> FALSE, cell |-> NanC]
    ELSE LET q == r.val.n \div Pow10(r.val.frac)
             rem2 == 2 * (r.val.n % Pow10(r.val.frac))
         IN  [ok |-> TRUE,
              cell |-> IntC(IF rem2 > Pow10(r.val.frac) \/ (rem2 = Pow10(r.val.frac) /\ q % 2 = 1)
                            THEN q + 1 ELSE q)]

\* float(x)
FloatOfJ(r) ==
    IF ~r.ok \/ r.val.k \notin {"num", "bool"} THEN [ok |-> FALSE, cell |-> NanC]
    ELSE [ok |-> TRUE, cell |-> FloatC(NumTenths(r.val))]

\* int(x)
IntOfJ(r) ==
    IF ~r.ok \/ r.val.k \notin {"num", "bool"} THEN [ok |-> FALSE, cell |-> NanC]
    ELSE [ok |-> TRUE, cell |-> IntC(r.val.n \div Pow10(r.val.frac))]

\* bool(x): the truth value, which nothing fails to have
BoolOfJ(r) ==
    IF ~r.ok THEN [ok |-> FALSE, cell |-> NanC]
    ELSE [ok |-> TRUE,
          cell |-> BoolC(CASE r.val.k \in {"num", "bool"} -> r.val.n # 0
                           [] r.val.k = "str" -> TRUE
                           [] r.val.k = "arr" -> r.val.items # <<>>
                           [] r.val.k = "obj" -> r.val.keys # <<>>
                           [] OTHER -> FALSE)]

Stream0(interval, field) == GetKey(GetFirst(GetKey(Got(interval), "$streams")), field)

\* the dict of lines 226-232; ok is FALSE when building it raises
TcpClientRow(run, interval) ==
    LET second == RoundOf(GetKey(GetKey(Got(interval), "$sum"), "$start"))
        bps == FloatOfJ(Stream0(interval, "$bits_per_second"))
        bytes == IntOfJ(Stream0(interval, "$bytes"))
        omitted == BoolOfJ(Stream0(interval, "$omitted"))
    IN  [ok |-> second.ok /\ bps.ok /\ bytes.ok /\ omitted.ok,
         row |-> [run |-> IntC(run), second |-> second.cell, bps |-> bps.cell,
                  bytes |-> bytes.cell, omitted |-> omitted.cell]]

\* the dict of lines 317-326
TcpServerRow(run, interval) ==
    LET second == RoundOf(GetKey(GetKey(Got(interval), "$sum"), "$start"))
        cwnd == IntOfJ(Stream0(interval, "$snd_cwnd"))
        bps == FloatOfJ(Stream0(interval, "$bits_per_second"))
        bytes == IntOfJ(Stream0(interval, "$bytes"))
        lost == IntOfJ(Stream0(interval, "$retransmits"))
        rtt == IntOfJ(Stream0(interval, "$rtt"))
        omitted == BoolOfJ(Stream0(interval, "$omitted"))
    IN  [ok |-> second.ok /\ cwnd.ok /\ bps.ok /\ bytes.ok /\ lost.ok /\ rtt.ok /\ omitted.ok,
         row |-> [run |-> IntC(run), second |-> second.cell, cwnd |-> cwnd.cell, bps |-> bps.cell,
                  bytes |-> bytes.cell, packets_lost |-> lost.cell, rtt |-> rtt.cell,
                  omitted |-> omitted.cell]]

TcpRow(role, run, interval) ==
    IF role = "client" THEN TcpClientRow(run, interval) ELSE TcpServerRow(run, interval)

\* the loop over the intervals of one document
TcpAppend(st, r) ==
    IF ~r.ok THEN [st EXCEPT !.raised = TRUE] ELSE [st EXCEPT !.df = AppendRow(@, r.row)]

RECURSIVE TcpIntervals(_, _, _, _)
TcpIntervals(role, st, run, intervals) ==
    IF intervals = <<>> \/ st.raised THEN st
    ELSE TcpIntervals(role, TcpAppend(st, TcpRow(role, run, Head(intervals))), run, Tail(intervals))

\* the loop over the files
\* lines 221-232 for the loaded document
TcpDocument(role, st, run, results) ==
    IF results = JNone THEN st
    ELSE IF ~IterOf(GetKey(Got(results), "$intervals")).ok THEN [st EXCEPT !.raised = TRUE]
    ELSE TcpIntervals(role, st, run, IterOf(GetKey(Got(results), "$intervals")).items)

RECURSIVE TcpFiles(_, _, _, _)
TcpFiles(role, st, files, pep) ==
    IF files = <<>> \/ st.raised THEN st
    ELSE TcpFiles(role,
                  IF NameMatches(Head(files), IF role = "client" THEN "tcp_client" ELSE "tcp_server", pep)
                  THEN TcpDocument(role, st, Head(files).run,
                                   load_json_file(Head(files).isfile, Head(files).text))
                  ELSE st,
                  Tail(files), pep)

ExtractorResult(st, e) == IF st.raised THEN ExtractorRaise(e) ELSE ExtractorOk(st.df)

parse_tcp(role, cols, files, pep) ==
    ExtractorResult(TcpFiles(role, [df |-> EmptyDF(cols), raised |-> FALSE], files, pep), "KeyError")

parse_tcp_client(files, pep) ==
    parse_tcp("client", <<"run", "second", "bps", "bytes", "omitted">>, files, pep)

parse_tcp_server(files, pep) ==
    parse_tcp("server", <<"run", "second", "cwnd", "bps", "bytes", "packets_lost", "rtt", "omitted">>, files, pep)

(***************************************************************************)
(* Unit specifications: Init draws the input of one function from a        *)
(* bounded set, the one action applies the function.                       *)
(***************************************************************************)
Idle == /\ tree = <<>>
        /\ di = 0
        /\ tables = <<>>
        /\ calls = <<>>
        /\ nodata = <<>>
        /\ exc = "none"

Prefixes == LowerLetters \cup UpperLetters \cup {""}

InitFactor ==
    /\ Idle
    /\ pc = "call"
    /\ arg \in [fn : {"bps_factor"}, p : Prefixes, q : Prefixes]
    /\ res = <<>>

CallBpsFactor ==
    /\ pc = "call"
    /\ arg.fn = "bps_factor"
    /\ res' = <<bps_factor(arg.p), bps_factor(arg.q)>>
    /\ pc' = "ret"
    /\ UNCHANGED <<tree, di, tables, calls, nodata, exc, arg>>

SpecFactor == InitFactor /\ [][CallBpsFactor]_vars

\* the exponent the prefix letter stands for: k 10, m 20, ... y 80
PrefixRank(p) ==
    CASE Upper(p) = "K" -> 1 [] Upper(p) = "M" -> 2 [] Upper(p) = "G" -> 3 [] Upper(p) = "T" -> 4
      [] Upper(p) = "P" -> 5 [] Upper(p) = "E" -> 6 [] Upper(p) = "Z" -> 7 [] Upper(p) = "Y" -> 8
      [] OTHER -> 0

\* C2: bps_factor maps k, m, g, t, p, e, z, y in either case to 2^10 .. 2^80
\* and every other prefix to 1, so it is strictly increasing along k < m < g <
\* t < p < e < z < y.
C2_FactorIsPowerOfTwo ==
    (pc = "ret" /\ arg.fn = "bps_factor") =>
        /\ res[1] = IF PrefixRank(arg.p) = 0 THEN BigOf(1) ELSE BigPow2(10 * PrefixRank(arg.p))
        /\ (0 < PrefixRank(arg.p) /\ PrefixRank(arg.p) < PrefixRank(arg.q)) => BigLess(res[1], res[2])

(***************************************************************************)
(* load_json_file on a document followed by trailing content.              *)
(***************************************************************************)
MaxDoc == 3
MaxTrail == 2

JsonAlphabet == {"0", "1", ".", "[", "]", ",", " ", "x"}

\* the texts that are one valid JSON document
JsonDocs == {d \in SeqsUpTo(JsonAlphabet, MaxDoc) : JsonLoads(d).st = "ok"}

InitJson ==
    /\ Idle
    /\ pc = "call"
    /\ arg \in [fn : {"load_json_file"}, doc : JsonDocs, trail : SeqsUpTo(JsonAlphabet, MaxTrail) \ {<<>>}]
    /\ res = <<>>

CallLoadJsonFile ==
    /\ pc = "call"
    /\ arg.fn = "load_json_file"
    /\ res' = load_json_file(TRUE, arg.doc \o arg.trail)
    /\ pc' = "ret"
    /\ UNCHANGED <<tree, di, tables, calls, nodata, exc, arg>>

SpecJson == InitJson /\ [][CallLoadJsonFile]_vars

ContinuesNumber(doc, trail) == doc[Len(doc)] \in Digits /\ trail[1] \in Digits \cup {".", "e", "E"}

Sats == {"GEO", "MEO", "LEO", "NONE"}

DirName(sat, rate, loss10, queue10, txq) ==
    [sat |-> sat, rate |-> rate, loss10 |-> loss10, queue10 |-> queue10, txq |-> txq]

Entry(name, isdir, files) == [name |-> name, isdir |-> isdir, files |-> files]

\* the entry is a directory whose name matches the pattern
FolderMatches(e) == e.isdir /\ e.name.sat \in Sats

\* the tuple measure_folders yields, as the cells extend_df stores
Decode(name) ==
    [sat |-> StrC(name.sat), rate |-> IntC(name.rate), loss |-> MilliC(name.loss10),
     queue |-> FloatC(name.queue10), txq |-> IntC(IF name.txq >= 0 THEN name.txq ELSE 1000)]

\* the index of the next entry measure_folders yields after entry i, or
\* Len(t) + 1 when the generator is exhausted
NextFolderIndex(t, i) ==
    IF \E j \in (i + 1)..Len(t) : FolderMatches(t[j])
    THEN CHOOSE j \in (i + 1)..Len(t) :
            FolderMatches(t[j]) /\ \A k \in (i + 1)..(j - 1) : ~FolderMatches(t[k])
    ELSE Len(t) + 1

(***************************************************************************)
(* extend_df (parse.py 394-416).                                           *)
(***************************************************************************)
extend_df(df, protocol, pep, d) ==
    SetColumn(SetColumn(SetColumn(SetColumn(SetColumn(SetColumn(SetColumn(df,
        "protocol", StrC(protocol)), "pep", BoolC(pep)), "sat", d.sat), "rate", d.rate),
        "loss", d.loss), "queue", d.queue), "txq", d.txq)

(***************************************************************************)
(* parse (parse.py 458-560).                                               *)
(***************************************************************************)
Common == <<"protocol", "pep", "sat", "rate", "loss", "queue", "txq">>

Kinds == <<"quic_client", "quic_server", "quic_times", "tcp_client", "tcp_server", "tcp_times">>

AllKinds == Kinds \o <<"ping_raw", "ping_summary">>

\* the columns each extractor declares for its table
KindColumns ==
    [quic_client |-> <<"run", "second", "bps", "bytes", "packets_received">>,
     quic_server |-> <<"run", "second", "cwnd", "packets_sent", "packets_lost">>,
     quic_times |-> <<"run", "con_est", "ttfb">>,
     tcp_client |-> <<"run", "second", "bps", "bytes", "omitted">>,
     tcp_server |-> <<"run", "second", "cwnd", "bps", "bytes", "packets_lost", "rtt", "omitted">>,
     tcp_times |-> <<"run", "con_est", "ttfb">>,
     ping_raw |-> <<"seq", "ttl", "rtt">>,
     ping_summary |-> <<"packets_sent", "packets_received", "rtt_min", "rtt_avg", "rtt_max", "rtt_mdev">>]

\* lines 460-476
InitialTables == [k \in Range(AllKinds) |-> EmptyDF(Common \o KindColumns[k])]

ProtocolOf(kind) == IF kind \in {"quic_client", "quic_server", "quic_times"} THEN "quic" ELSE "tcp"

\* the extractor parse() calls for the kind
Extract(kind, files, pep) ==
    CASE kind = "quic_client" -> parse_quic_client(files, pep)
      [] kind = "quic_server" -> parse_quic_server(files, pep)
      [] kind = "quic_times" -> parse_quic_ttfb(files, pep)
      [] kind = "tcp_client" -> parse_tcp_client(files, pep)
      [] kind = "tcp_server" -> parse_tcp_server(files, pep)
      [] OTHER -> parse_tcp_ttfb(files, pep)

CallRecord(fn, i, pep, r) ==
    [fn |-> fn, dir |-> i, pep |-> pep, st |-> r.st, cols |-> r.df.cols, nrows |-> Len(r.df.rows),
     cols2 |-> r.df2.cols, nrows2 |-> Len(r.df2.rows)]

\* one "df = parse_x(path, pep=pep); if df is not None: ... else: ..." block
\* of lines 484-529
Logged(st, fn, i, pep, r) == [st EXCEPT !.calls = Append(@, CallRecord(fn, i, pep, r))]

\* an accumulation that differs from ExtractApply: the new rows come first
ExtractApplyPrepend(st, kind, pep, d, r) ==
    CASE r.st = "raise" -> [st EXCEPT !.exc = r.exc]
      [] r.st = "none" -> [st EXCEPT !.nodata = Append(@, kind)]
      [] OTHER -> [st EXCEPT !.tables[kind] =
                      [cols |-> @.cols,
                       rows |-> AppendDF(EmptyDF(@.cols), extend_df(r.df, ProtocolOf(kind), pep, d)).rows
                                \o @.rows]]

\* lines 485-489: the returned table stamped and appended, or "No data ..."
ExtractApply(st, kind, pep, d, r) ==
    CASE r.st = "raise" -> [st EXCEPT !.exc = r.exc]
      [] r.st = "none" -> [st EXCEPT !.nodata = Append(@, kind)]
      [] OTHER -> [st EXCEPT !.tables[kind] = AppendDF(@, extend_df(r.df, ProtocolOf(kind), pep, d))]

LoggedApply(st, kind, i, pep, d, r) == ExtractApply(Logged(st, kind, i, pep, r), kind, pep, d, r)

ExtractStep(st, kind, i, e, pep) ==
    LoggedApply(st, kind, i, pep, Decode(e.name), Extract(kind, e.files, pep))

\* the body of "for pep in (False, True)" from its k-th block on
RECURSIVE PassFrom(_, _, _, _, _)
PassFrom(k, st, i, e, pep) ==
    IF k > Len(Kinds) \/ st.exc # "none" THEN st
    ELSE PassFrom(k + 1, ExtractStep(st, Kinds[k], i, e, pep), i, e, pep)

\* lines 532-538
PingApply(st, d, r) ==
    IF r.st = "none" THEN [st EXCEPT !.nodata = Append(@, "ping")]
    ELSE [st EXCEPT
            !.tables["ping_raw"] = AppendDF(@, extend_df(r.df, "icmp", FALSE, d)),
            !.tables["ping_summary"] = AppendDF(@, extend_df(r.df2, "icmp", FALSE, d))]

LoggedPing(st, i, d, r) == PingApply(Logged(st, "ping", i, FALSE, r), d, r)

PingStep(st, i, e) == LoggedPing(st, i, Decode(e.name), parse_ping(e.files))

\* lines 542-549: the eight tables normalised; ok is FALSE when one raises
FixedOf(fixed) ==
    [ok |-> \A k \in DOMAIN fixed : fixed[k].ok, tables |-> [k \in DOMAIN fixed |-> fixed[k].df]]

FixAll(tbls) == FixedOf([k \in DOMAIN tbls |-> fix_dtypes(tbls[k])])

(***************************************************************************)
(* The input trees of the parse() specification.                           *)
(***************************************************************************)
\* {"intervals":[{"sum":{"start":0.6},"streams":[{"bits_per_second":12,
\* "bytes":5,"omitted":false}]}]} and a stray character after it
TcpClientText ==
    <<"{", "$intervals", ":", "[", "{", "$sum", ":", "{", "$start", ":", "0", ".", "6", "}", ",",
      "$streams", ":", "[", "{", "$bits_per_second", ":", "1", "2", ",", "$bytes", ":", "5", ",",
      "$omitted", ":", "false", "}", "]", "}", "]", "}", "x">>

TcpServerText ==
    <<"{", "$intervals", ":", "[", "{", "$sum", ":", "{", "$start", ":", "1", "}", ",",
      "$streams", ":", "[", "{", "$snd_cwnd", ":", "7", ",", "$bits_per_second", ":", "1", "2", ",",
      "$bytes", ":", "5", ",", "$retransmits", ":", "0", ",", "$rtt", ":", "6", "0", "0", ",",
      "$omitted", ":", "true", "}", "]", "}", "]", "}">>

\* the files a directory may hold, in the order os.listdir returns them
AllFiles ==
    << File("quic_client", FALSE, 1, <<SecondLine(3, 55, "m", 1000000, 700), JunkLine>>, <<>>),
       File("quic_client", TRUE, 1, <<SecondLine(1, 10, "k", 2000, 3)>>, <<>>),
       File("quic_server", FALSE, 1, <<ConnectionLine(1, 10, 20, 1)>>, <<>>),
       File("quic_ttfb", FALSE, 1, <<LabelLine("connection establishment time:", <<"1", "2", "m", "s">>),
                                     LabelLine("time to first byte:", <<"3", "4", "m", "s">>),
                                     LabelLine("time to first byte:", <<"5", "6", "m", "s">>)>>, <<>>),
       File("ping", FALSE, 0, <<ReplyLine(1, 64, <<"6", "0", "0">>), StatsLine(10, 9),
                                RttLine(10, 20, 30, 5)>>, <<>>),
       File("tcp_client", FALSE, 1, <<>>, TcpClientText),
       File("tcp_client", TRUE, 1, <<>>, <<"{", "}">>),
       File("tcp_server", FALSE, 1, <<>>, TcpServerText),
       File("tcp_ttfb", TRUE, 1, <<LabelLine("established=", <<"0", ".", "5">>),
                                   LabelLine("ttfb=", <<"1", ".", "2">>)>>, <<>>),
       File("ping", FALSE, 0, <<RttLine(10, 20, 30, 5)>>, <<>>),
       File("quic_ttfb", TRUE, 2, <<LabelLine("time to first byte:", <<"1", ".", "5", "m", "s">>)>>, <<>>) >>

\* a directory holds at most MaxFiles consecutive files of AllFiles
Listings ==
    {SubSeq(AllFiles, i, j) : i \in 1..Len(AllFiles), j \in 0..Len(AllFiles)} \cap SeqsUpTo(Range(AllFiles), MaxFiles)

\* LEO_r50mbit_l2_q500 and GEO_r20mbit_l0.5_q1.5_txq100
Names == {DirName("LEO", 50, 20, 5000, -1), DirName("GEO", 20, 5, 15, 100)}

\* a directory whose name the pattern rejects, with a QUIC client log and a
\* ping log in it
OtherFolder == Entry(DirName("XEO", 50, 20, 5000, -1), TRUE, <<AllFiles[1], AllFiles[5]>>)

\* a regular file whose name the pattern accepts
PlainFile == Entry(DirName("MEO", 1, 0, 10, -1), FALSE, <<>>)

Entries == {Entry(n, TRUE, l) : n \in Names, l \in Listings} \cup {OtherFolder, PlainFile}

\* the entries of a directory have distinct names
Trees ==
    {t \in SeqsUpTo(Entries, MaxDirs) : \A i, j \in DOMAIN t : i # j => t[i].name # t[j].name}

Init ==
    /\ tree \in Trees
    /\ pc = "folders"
    /\ di = 0
    /\ tables = InitialTables
    /\ calls = <<>>
    /\ nodata = <<>>
    /\ exc = "none"
    /\ arg = <<>>
    /\ res = <<>>

\* the for statement of line 478 asks measure_folders for its next folder
NextFolder ==
    /\ pc = "folders"
    /\ di' = NextFolderIndex(tree, di)
    /\ pc' = IF di' <= Len(tree) THEN "pep_false" ELSE "fix"
    /\ UNCHANGED <<tree, tables, calls, nodata, exc, arg, res>>

\* one pass of "for pep in (False, True)", lines 482-529
PepPass ==
    /\ pc \in {"pep_false", "pep_true"}
    /\ \E st \in {PassFrom(1, [tables |-> tables, calls |-> calls, nodata |-> nodata, exc |-> "none"],
                           di, tree[di], pc = "pep_true")} :
           /\ tables' = st.tables
           /\ calls' = st.calls
           /\ nodata' = st.nodata
           /\ exc' = st.exc
           /\ pc' = IF st.exc # "none" THEN "raised"
                    ELSE IF pc = "pep_false" THEN "pep_true" ELSE "ping"
    /\ UNCHANGED <<tree, di, arg, res>>

\* lines 531-538
Ping ==
    /\ pc = "ping"
    /\ \E st \in {PingStep([tables |-> tables, calls |-> calls, nodata |-> nodata, exc |-> "none"],
                           di, tree[di])} :
           /\ tables' = st.tables
           /\ calls' = st.calls
           /\ nodata' = st.nodata
    /\ pc' = "folders"
    /\ UNCHANGED <<tree, di, exc, arg, res>>

\* lines 540-560: the tables are normalised and returned
FixDtypes ==
    /\ pc = "fix"
    /\ \E r \in {FixAll(tables)} :
           IF r.ok
           THEN tables' = r.tables /\ pc' = "done" /\ exc' = exc
           ELSE tables' = tables /\ pc' = "raised" /\ exc' = "ValueError"
    /\ UNCHANGED <<tree, di, calls, nodata, arg, res>>

Next == NextFolder \/ PepPass \/ Ping \/ FixDtypes

Spec == Init /\ [][Next]_vars

(***************************************************************************)
(* Properties of parse().                                                  *)
(***************************************************************************)
\* C3: whatever file of whatever directory cannot be parsed, parse() ends
\* normally: no exception leaves it.
C3_NoExceptionEscapes == pc # "raised" /\ exc = "none"

\* the directory of call c holds no file that parse_ping reads
NoPingFile(c) == PingFiles(tree[c.dir].files) = <<>>

\* C4 as stated: no extractor call returns None, an empty result has the
\* fixed columns of its kind, and no "No data ..." branch is ever taken.
C4_NeverNone ==
    /\ nodata = <<>>
    /\ \A i \in DOMAIN calls :
          /\ calls[i].st # "none"
          /\ (calls[i].st = "ok" /\ calls[i].fn # "ping") => calls[i].cols = KindColumns[calls[i].fn]
          /\ (calls[i].st = "ok" /\ calls[i].fn = "ping") =>
                calls[i].cols = KindColumns["ping_raw"] /\ calls[i].cols2 = KindColumns["ping_summary"]

\* C4 amended: the six QUIC and TCP extractors never return None and return
\* the fixed columns of their kind, with or without rows; parse_ping returns
\* None exactly when the directory has no ping.txt, which is the only "No
\* data ..." branch ever taken, and a table without columns when ping.txt has
\* no line for it.
C4_OnlyPingReturnsNone ==
    /\ \A k \in Range(nodata) : k = "ping"
    /\ \A i \in DOMAIN calls :
          /\ calls[i].fn # "ping" => calls[i].st # "none"
          /\ (calls[i].st = "ok" /\ calls[i].fn # "ping") => calls[i].cols = KindColumns[calls[i].fn]
          /\ calls[i].fn = "ping" => (calls[i].st = "none" <=> NoPingFile(calls[i]))
          /\ (calls[i].st = "ok" /\ calls[i].fn = "ping") =>
                /\ calls[i].cols = IF calls[i].nrows = 0 THEN <<>> ELSE KindColumns["ping_raw"]
                /\ calls[i].nrows2 = 0 => calls[i].cols2 = <<>>

\* a QUIC client call returned an empty table with its columns for a directory
\* without ping.txt, whose ping call then returned None
C4_Witness ==
    /\ nodata = <<"ping">>
    /\ \E i \in DOMAIN calls :
          /\ calls[i].fn = "quic_client" /\ calls[i].st = "ok" /\ calls[i].nrows = 0
          /\ calls[i].cols = KindColumns["quic_client"]
    /\ \E i \in DOMAIN calls : calls[i].fn = "ping" /\ calls[i].st = "none"

\* the value of a numeric cell is tenths / 10
NumEq(cell, tenths) ==
    \/ cell.t = "int" /\ cell.n * 10 = tenths
    \/ cell.t = "float" /\ cell.s = "" /\ cell.n = tenths

\* the file stem the extractor of a table reads
StemOf(kind) ==
    CASE kind = "quic_times" -> "quic_ttfb" [] kind = "tcp_times" -> "tcp_ttfb"
      [] kind \in {"ping_raw", "ping_summary"} -> "ping" [] OTHER -> kind

\* row r of table kind comes from a file of tree[i] and carries its parameters
RowFrom(kind, r, i) ==
    /\ FolderMatches(tree[i])
    /\ r["sat"] = StrC(tree[i].name.sat)
    /\ r["rate"] = IntC(tree[i].name.rate)
    /\ r["loss"] = MilliC(tree[i].name.loss10)
    /\ NumEq(r["queue"], tree[i].name.queue10)
    /\ r["txq"] = IntC(IF tree[i].name.txq >= 0 THEN tree[i].name.txq ELSE 1000)
    /\ r["protocol"] = StrC(IF StemOf(kind) = "ping" THEN "icmp" ELSE ProtocolOf(kind))
    /\ \E f \in Range(tree[i].files) :
          /\ NameMatches(f, StemOf(kind), r["pep"] = BoolC(TRUE))
          /\ StemOf(kind) # "ping" => r["run"] = IntC(f.run)

\* C7: every row of the tables parse() returns comes from a file of a
\* directory whose name matches the grammar and carries that directory's sat,
\* rate, loss, queue (fraction included) and txq and its invocation's protocol
\* and pep.
C7_RowProvenance ==
    pc = "done" =>
        \A k \in DOMAIN tables : \A j \in DOMAIN tables[k].rows :
            \E i \in DOMAIN tree : RowFrom(k, tables[k].rows[j], i)

\* the calls parse() makes for the folder at index i
FolderCalls(i) ==
    [k \in 1..13 |-> [fn |-> IF k = 13 THEN "ping" ELSE Kinds[((k - 1) % 6) + 1],
                      dir |-> i, pep |-> k \in 7..12]]

\* ... and for the folders from index i on
RECURSIVE Schedule(_)
Schedule(i) ==
    IF NextFolderIndex(tree, i) > Len(tree) THEN <<>>
    ELSE FolderCalls(NextFolderIndex(tree, i)) \o Schedule(NextFolderIndex(tree, i))

\* the index of the folder whose parameters row r carries
FolderOf(r) == CHOOSE i \in DOMAIN tree : FolderMatches(tree[i]) /\ r["sat"].s = tree[i].name.sat

\* row a may come before row b: an earlier folder, or the same and not pep
\* True before pep False
InOrder(a, b) ==
    \/ FolderOf(a) < FolderOf(b)
    \/ FolderOf(a) = FolderOf(b) /\ (a["pep"].n <= b["pep"].n)

\* C8: the rows of every table are grouped by folder in enumeration order,
\* pep False before pep True within a folder; for every folder the six
\* extractors are called with pep False, then with pep True, then parse_ping
\* once, and a parse() that returns has made exactly these calls.
C8_RowAndCallOrder ==
    /\ \A k \in DOMAIN tables : \A i, j \in DOMAIN tables[k].rows :
          i < j => InOrder(tables[k].rows[i], tables[k].rows[j])
    /\ Len(calls) <= Len(Schedule(0))
    /\ \A i \in DOMAIN calls :
          [fn |-> calls[i].fn, dir |-> calls[i].dir, pep |-> calls[i].pep] = Schedule(0)[i]
    /\ pc = "done" => Len(calls) = Len(Schedule(0))

\* parse() has returned a quic_client table with rows of two folders, the
\* second folder with a pep False and a pep True row
C8_Witness ==
    /\ pc = "done"
    /\ Len(calls) = 26
    /\ \E i, j, k \in DOMAIN tables["quic_client"].rows :
          /\ i < j /\ j < k
          /\ FolderOf(tables["quic_client"].rows[i]) = 1
          /\ FolderOf(tables["quic_client"].rows[j]) = 2
          /\ FolderOf(tables["quic_client"].rows[k]) = 2
          /\ tables["quic_client"].rows[j]["pep"] = BoolC(FALSE)
          /\ tables["quic_client"].rows[k]["pep"] = BoolC(TRUE)

(***************************************************************************)
(* parse_quic_client on one directory.                                     *)
(***************************************************************************)
\* "second 3: 5.5 <P>bit/s (1000000 bytes received, 700 packets received)" for
\* the prefixes none, k, m, K and M, "second 1: 1 kbit/s ..." and a line of
\* another form
QuicClientLineSet ==
    {SecondLine(3, 55, p, 1000000, 700) : p \in {"", "k", "m", "K", "M"}} \cup {JunkLine}

\* the files of the given content, under every name
QuicClientFileSet(lines) ==
    {File(stem, pep, run, lines, <<>>) :
        stem \in {"quic_client", "quic_ttfb"}, pep \in BOOLEAN, run \in {1, 2}}

\* a second file of the directory, or none
QuicClientMore == {<<>>, <<File("quic_client", FALSE, 7, <<SecondLine(1, 10, "k", 2000, 3)>>, <<>>)>>}

InitQuicClient ==
    /\ Idle
    /\ pc = "call"
    /\ \E lines \in SeqsUpTo(QuicClientLineSet, MaxLines) :
       \E f \in QuicClientFileSet(lines), more \in QuicClientMore, pep \in BOOLEAN :
          arg = [fn |-> "parse_quic_client", files |-> <<f>> \o more, pep |-> pep]
    /\ res = <<>>

CallParseQuicClient ==
    /\ pc = "call"
    /\ arg.fn = "parse_quic_client"
    /\ res' = parse_quic_client(arg.files, arg.pep)
    /\ pc' = "ret"
    /\ UNCHANGED <<tree, di, tables, calls, nodata, exc, arg>>

SpecQuicClient == InitQuicClient /\ [][CallParseQuicClient]_vars

\* the row C1 states for a line of the form, whatever the case of its prefix
ClaimedQuicClientRow(run, l) ==
    [run |-> IntC(run), second |-> IntC(l.a),
     bps |-> IntC((l.b * Pow2(10 * PrefixRank(l.p))) \div 10),
     bytes |-> IntC(l.c), packets_received |-> IntC(l.d)]

RECURSIVE ClaimedLineRows(_, _)
ClaimedLineRows(run, lines) ==
    IF lines = <<>> THEN <<>>
    ELSE (IF Head(lines).tag = "second" THEN <<ClaimedQuicClientRow(run, Head(lines))>> ELSE <<>>)
         \o ClaimedLineRows(run, Tail(lines))

RECURSIVE ClaimedFileRows(_, _)
ClaimedFileRows(files, pep) ==
    IF files = <<>> THEN <<>>
    ELSE (IF NameMatches(Head(files), "quic_client", pep)
          THEN ClaimedLineRows(Head(files).run, Head(files).lines) ELSE <<>>)
         \o ClaimedFileRows(Tail(files), pep)

\* C1: every line "second N: X <P>bit/s (B bytes received, K packets
\* received)" of a matching file, P an optional prefix letter in either case,
\* yields exactly one row with run, second N, bps int(X * factor(P)), bytes B
\* and packets_received K.
C1_EveryLineOneRow ==
    (pc = "ret" /\ arg.fn = "parse_quic_client") =>
        res.st = "ok" /\ res.df.rows = ClaimedFileRows(arg.files, arg.pep)

(***************************************************************************)
(* parse_quic_ttfb and parse_tcp_ttfb on one directory.                    *)
(***************************************************************************)
\* the texts after a label: "12ms", "34ms", "1.5ms" and "7" for QUIC, "0.5",
\* "1.2", "2" and "x" for TCP
TtfbTexts(proto) ==
    IF proto = "quic"
    THEN {<<"1", "2", "m", "s">>, <<"3", "4", "m", "s">>, <<"1", ".", "5", "m", "s">>, <<"7">>}
    ELSE {<<"0", ".", "5">>, <<"1", ".", "2">>, <<"2">>, <<"x">>}

TtfbLineSet(proto) ==
    {LabelLine(label, txt) : label \in {ConEstLabel(proto), TtfbLabel(proto)}, txt \in TtfbTexts(proto)}
        \cup {JunkLine}

InitTtfb ==
    /\ Idle
    /\ pc = "call"
    /\ \E proto \in {"quic", "tcp"}, stem \in {"quic_ttfb", "tcp_ttfb"}, pep \in BOOLEAN :
       \E lines \in SeqsUpTo(TtfbLineSet(proto), MaxLines) :
          arg = [fn |-> "parse_ttfb", proto |-> proto, pep |-> pep,
                 files |-> <<File(stem, FALSE, 4, lines, <<>>),
                             File(stem, TRUE, 5, <<LabelLine(TtfbLabel(proto), <<"2">>)>>, <<>>)>>]
    /\ res = <<>>

CallParseTtfb ==
    /\ pc = "call"
    /\ arg.fn = "parse_ttfb"
    /\ res' = IF arg.proto = "quic" THEN parse_quic_ttfb(arg.files, arg.pep)
              ELSE parse_tcp_ttfb(arg.files, arg.pep)
    /\ pc' = "ret"
    /\ UNCHANGED <<tree, di, tables, calls, nodata, exc, arg>>

SpecTtfb == InitTtfb /\ [][CallParseTtfb]_vars

\* the lines of a file that carry the label
RECURSIVE WithLabel(_, _)
WithLabel(lines, label) ==
    IF lines = <<>> THEN <<>>
    ELSE (IF Head(lines).tag = label THEN <<Head(lines)>> ELSE <<>>) \o WithLabel(Tail(lines), label)

\* the value of the first line that carries the label, null when there is none
FirstValue(proto, lines, label) ==
    IF WithLabel(lines, label) = <<>> THEN NanC
    ELSE TtfbValue(proto, Head(WithLabel(lines, label)).txt).cell

RECURSIVE ClaimedTtfbRows(_, _, _)
ClaimedTtfbRows(proto, files, pep) ==
    IF files = <<>> THEN <<>>
    ELSE (IF NameMatches(Head(files), IF proto = "quic" THEN "quic_ttfb" ELSE "tcp_ttfb", pep)
          THEN << [run |-> IntC(Head(files).run),
                   con_est |-> FirstValue(proto, Head(files).lines, ConEstLabel(proto)),
                   ttfb |-> FirstValue(proto, Head(files).lines, TtfbLabel(proto))] >>
          ELSE <<>>)
         \o ClaimedTtfbRows(proto, Tail(files), pep)

\* C5: every file whose name matches the TTFB pattern yields exactly one row,
\* whatever its content; con_est and ttfb are the values of the first line
\* with their label, null without such a line.
C5_OneRowPerFile ==
    (pc = "ret" /\ arg.fn = "parse_ttfb") =>
        res.st = "ok" /\ res.df.rows = ClaimedTtfbRows(arg.proto, arg.files, arg.pep)

(***************************************************************************)
(* parse_ping and the ping block of parse() on one directory.              *)
(***************************************************************************)
\* replies "time=600 ms" and "time=12.3 ms", two "packets transmitted" lines,
\* two "rtt min/avg/max/mdev" lines and a line of another form
PingLineSet ==
    {ReplyLine(1, 64, <<"6", "0", "0">>), ReplyLine(2, 64, <<"1", "2", ".", "3">>),
     StatsLine(10, 9), StatsLine(5, 5), RttLine(10, 20, 30, 5), RttLine(11, 21, 31, 6), JunkLine}

PingFolder(present, lines) ==
    Entry(DirName("LEO", 50, 20, 5000, -1), TRUE,
          <<File("quic_client", FALSE, 1, <<>>, <<>>)>>
              \o (IF present THEN <<File("ping", FALSE, 0, lines, <<>>)>> ELSE <<>>))

InitPing ==
    /\ Idle
    /\ pc = "call"
    /\ \E present \in BOOLEAN, lines \in SeqsUpTo(PingLineSet, MaxLines) :
          arg = [fn |-> "parse_ping", present |-> present, lines |-> lines,
                 folder |-> PingFolder(present, lines)]
    /\ res = <<>>

\* parse_ping(path), and lines 532-538 on tables that are still empty
CallParsePing ==
    /\ pc = "call"
    /\ arg.fn = "parse_ping"
    /\ res' = [ret |-> parse_ping(arg.folder.files),
               after |-> PingStep([tables |-> InitialTables, calls |-> <<>>, nodata |-> <<>>,
                                   exc |-> "none"], 1, arg.folder)]
    /\ pc' = "ret"
    /\ UNCHANGED <<tree, di, tables, calls, nodata, exc, arg>>

SpecPing == InitPing /\ [][CallParsePing]_vars

\* the lines of the given kinds
RECURSIVE WithTag(_, _)
WithTag(lines, tag) ==
    IF lines = <<>> THEN <<>>
    ELSE (IF Head(lines).tag = tag THEN <<Head(lines)>> ELSE <<>>) \o WithTag(Tail(lines), tag)

Last(s) == s[Len(s)]

\* the fields of the summary a trailer line of the kind gives
TrailerFields(tag) ==
    IF tag = "stats" THEN {"packets_sent", "packets_received"}
    ELSE {"rtt_min", "rtt_avg", "rtt_max", "rtt_mdev"}

\* the part of the summary row taken from the last trailer line of the kind
FromLastTrailer(row, lines, tag) ==
    /\ TrailerFields(tag) \subseteq DOMAIN row
    /\ IF tag = "stats"
       THEN /\ row["packets_sent"] = IntC(Last(WithTag(lines, "stats")).a)
            /\ row["packets_received"] = IntC(Last(WithTag(lines, "stats")).b)
       ELSE /\ row["rtt_min"] = FloatC(Last(WithTag(lines, "rtt")).a)
            /\ row["rtt_avg"] = FloatC(Last(WithTag(lines, "rtt")).b)
            /\ row["rtt_max"] = FloatC(Last(WithTag(lines, "rtt")).c)
            /\ row["rtt_mdev"] = FloatC(Last(WithTag(lines, "rtt")).d)

\* the summary row holds the six values of the trailer lines
SummaryFromTrailers(row, lines) ==
    /\ DOMAIN row = {"packets_sent", "packets_received", "rtt_min", "rtt_avg", "rtt_max", "rtt_mdev"}
    /\ row["packets_sent"] = IntC(Last(WithTag(lines, "stats")).a)
    /\ row["packets_received"] = IntC(Last(WithTag(lines, "stats")).b)
    /\ row["rtt_min"] = FloatC(Last(WithTag(lines, "rtt")).a)
    /\ row["rtt_avg"] = FloatC(Last(WithTag(lines, "rtt")).b)
    /\ row["rtt_max"] = FloatC(Last(WithTag(lines, "rtt")).c)
    /\ row["rtt_mdev"] = FloatC(Last(WithTag(lines, "rtt")).d)

\* the raw rows are the (seq, ttl, rtt) of the given reply lines, in order
RawFromReplies(rows, replies) ==
    /\ Len(rows) = Len(replies)
    /\ \A i \in DOMAIN rows :
          /\ rows[i]["seq"].n = replies[i].a
          /\ rows[i]["ttl"].n = replies[i].b
          /\ IntOf(replies[i].txt).ok /\ rows[i]["rtt"].n = IntOf(replies[i].txt).n

\* nothing is added to the two ping tables and no exception is raised
PingAddsNothing(after) ==
    /\ after.tables = InitialTables
    /\ after.exc = "none"

\* C10 as stated: whenever ping.txt exists the summary has exactly one row
\* with the six values of the trailer lines and the raw table one row per
\* reply line; without ping.txt no row is added and the run goes on.
C10_PingTables ==
    (pc = "ret" /\ arg.fn = "parse_ping") =>
        /\ arg.present =>
              /\ res.ret.st = "ok"
              /\ Len(res.ret.df2.rows) = 1
              /\ WithTag(arg.lines, "stats") # <<>> /\ WithTag(arg.lines, "rtt") # <<>>
              /\ SummaryFromTrailers(res.ret.df2.rows[1], arg.lines)
              /\ RawFromReplies(res.ret.df.rows, WithTag(arg.lines, "reply"))
        /\ ~arg.present => PingAddsNothing(res.after)

\* the reply lines whose time is a whole number of milliseconds
RECURSIVE WholeReplies(_)
WholeReplies(lines) ==
    IF lines = <<>> THEN <<>>
    ELSE (IF Head(lines).tag = "reply" /\ IntOf(Head(lines).txt).ok THEN <<Head(lines)>> ELSE <<>>)
         \o WholeReplies(Tail(lines))

\* the kinds of trailer line the file has
TrailerKinds(lines) == {tag \in {"stats", "rtt"} : WithTag(lines, tag) # <<>>}

\* C10 amended: whenever ping.txt exists the summary has no row when the file
\* has no trailer line, and otherwise exactly one row holding the fields of the
\* trailer kinds the file has, taken from the last line of each kind (all six
\* when it has both); the raw table has one row per reply line whose time is a
\* whole number of milliseconds; without ping.txt no row is added and the run
\* goes on.
C10_PingTablesFromTrailersPresent ==
    (pc = "ret" /\ arg.fn = "parse_ping") =>
        /\ arg.present =>
              /\ res.ret.st = "ok"
              /\ RawFromReplies(res.ret.df.rows, WholeReplies(arg.lines))
              /\ Len(res.ret.df2.rows) = IF TrailerKinds(arg.lines) = {} THEN 0 ELSE 1
              /\ \A i \in DOMAIN res.ret.df2.rows :
                    /\ DOMAIN res.ret.df2.rows[i] = UNION {TrailerFields(k) : k \in TrailerKinds(arg.lines)}
                    /\ \A k \in TrailerKinds(arg.lines) : FromLastTrailer(res.ret.df2.rows[i], arg.lines, k)
              /\ TrailerKinds(arg.lines) = {"stats", "rtt"} =>
                    SummaryFromTrailers(res.ret.df2.rows[1], arg.lines)
        /\ ~arg.present => res.ret.st = "none" /\ PingAddsNothing(res.after)

\* a ping.txt with a reply and both trailer lines has given one raw row and
\* the one-row summary 10 / 9 / 1.0 / 2.0 / 3.0 / 0.5
C10_Witness ==
    /\ pc = "ret" /\ arg.fn = "parse_ping" /\ arg.present
    /\ arg.lines = <<ReplyLine(1, 64, <<"6", "0", "0">>), StatsLine(10, 9), RttLine(10, 20, 30, 5)>>
    /\ Len(res.ret.df.rows) = 1
    /\ res.ret.df2.rows = << [packets_sent |-> IntC(10), packets_received |-> IntC(9),
                              rtt_min |-> FloatC(10), rtt_avg |-> FloatC(20),
                              rtt_max |-> FloatC(30), rtt_mdev |-> FloatC(5)] >>
    /\ Len(res.after.tables["ping_summary"].rows) = 1

(***************************************************************************)
(* fix_dtypes on one table.                                                *)
(***************************************************************************)
\* three columns fix_dtypes converts and one it does not know
FixColumns == {"queue", "bps", "pep", "note"}

FixCells == {IntC(5), FloatC(15), NanC, StrC("LEO"), DigitsC(7)}

\* the tables of the given columns with up to MaxRows rows
TablesOver(cols) ==
    {[cols |-> cols, rows |-> rows] : rows \in SeqsUpTo([Range(cols) -> FixCells], MaxRows)}

InitFix ==
    /\ Idle
    /\ pc = "call"
    /\ \E c \in [1..2 -> FixColumns] :
          /\ c[1] # c[2]
          /\ \E df \in TablesOver(c) : arg = [fn |-> "fix_dtypes", df |-> df]
    /\ res = <<>>

CallFixDtypes ==
    /\ pc = "call"
    /\ arg.fn = "fix_dtypes"
    /\ res' = fix_dtypes(arg.df)
    /\ pc' = "ret"
    /\ UNCHANGED <<tree, di, tables, calls, nodata, exc, arg>>

SpecFix == InitFix /\ [][CallFixDtypes]_vars

\* the type of cell a column of the given dtype holds after fix_dtypes
CellTypeOf(ty) ==
    CASE ty = "int32" -> {"int"}
      [] ty \in {"float32", "float64"} -> {"float", "nan"}
      [] ty = "bool" -> {"bool"}
      [] OTHER -> {"str"}

\* C9: fix_dtypes applied to a table it has already normalised gives the same
\* table again; the result has the columns and the rows of the input in the
\* same order, the cells of columns outside the map are untouched and a cell
\* that already has the type of its column keeps its value.
C9_FixDtypesIdempotent ==
    (pc = "ret" /\ arg.fn = "fix_dtypes" /\ res.ok) =>
        /\ fix_dtypes(res.df) = res
        /\ res.df.cols = arg.df.cols
        /\ Len(res.df.rows) = Len(arg.df.rows)
        /\ \A i \in DOMAIN res.df.rows :
              /\ DOMAIN res.df.rows[i] = DOMAIN arg.df.rows[i]
              /\ \A c \in DOMAIN res.df.rows[i] :
                    IF c \in DOMAIN dtypes
                    THEN /\ res.df.rows[i][c].t \in CellTypeOf(dtypes[c])
                         /\ arg.df.rows[i][c].t \in CellTypeOf(dtypes[c]) =>
                                res.df.rows[i][c] = arg.df.rows[i][c]
                    ELSE res.df.rows[i][c] = arg.df.rows[i][c]

\* a table with the queue values 1.5 and 5 and a column outside the map has
\* been normalised: queue is 1 and 5, the other column is as it was
C9_Witness ==
    /\ pc = "ret" /\ arg.fn = "fix_dtypes" /\ res.ok
    /\ arg.df = [cols |-> <<"queue", "note">>,
                 rows |-> << [queue |-> FloatC(15), note |-> StrC("LEO")],
                             [queue |-> IntC(5), note |-> NanC] >>]
    /\ res.df.rows = << [queue |-> IntC(1), note |-> StrC("LEO")],
                        [queue |-> IntC(5), note |-> NanC] >>

(***************************************************************************)
(* main(): the output-directory check, parsing, saving, loading and the    *)
(* call of analyze_all, run after run on one file system.  arg holds the   *)
(* command line of the run; res holds the file system, the local           *)
(* parsed_results, the exit status and the log of what main has done.      *)
(***************************************************************************)
MaxRuns == 2

\* Mode.do_parse and Mode.do_analyze
do_parse(mode) == mode \in {"PARSE", "ALL"}
do_analyze(mode) == mode \in {"ANALYZE", "ALL"}

\* os.path.exists and os.path.isdir of a path whose state is d
exists(d) == d.kind # "absent"

\* a test that differs from isdir: every path passes
IsDirAlways(d) == TRUE

isdir(d) == d.kind = "dir"

\* a path: absent, a regular file, or a directory with its *.pkl files (name
\* without the extension -> pickled table) and the names of its *.csv files
PathState(kind, pkls, csvs) == [kind |-> kind, pkls |-> pkls, csvs |-> csvs]

NoFiles == [n \in {} |-> EmptyDF(<<>>)]

\* to_pickle and pd.read_pickle: the pickled form of a table and the table
\* read back from it
to_pickle(df) == [format |-> "pickle", cols |-> df.cols, rows |-> df.rows]
read_pickle(p) == [cols |-> p.cols, rows |-> p.rows]

\* the input directories: one experiment with a QUIC client log and a ping
\* log, one with a TCP document that lacks its intervals, one with a ping log
\* that has only the rtt trailer, and none
MainTrees ==
    { <<Entry(DirName("LEO", 50, 20, 5000, -1), TRUE, <<AllFiles[1], AllFiles[5]>>)>>,
      <<Entry(DirName("GEO", 20, 5, 15, 100), TRUE, <<AllFiles[7]>>)>>,
      <<Entry(DirName("LEO", 50, 20, 5000, -1), TRUE, <<AllFiles[10]>>)>>,
      <<>> }

\* what the input directory holds besides the experiments: nothing, or a
\* pickle left by something else
StrayPickles == {NoFiles, [old |-> to_pickle(AppendRow(EmptyDF(<<"queue">>), [queue |-> FloatC(15)]))]}

\* an entry of the log of main
Event(run, ev, dir, tbls) == [run |-> run, ev |-> ev, dir |-> dir, tables |-> tbls]

RunArgs == [fn : {"main"}, mode : {"PARSE", "ANALYZE", "ALL"}, out_dir : {"I", "O"}]

InitMain ==
    /\ tree \in MainTrees
    /\ pc = "main"
    /\ di = 0
    /\ tables = InitialTables
    /\ calls = <<>>
    /\ nodata = <<>>
    /\ exc = "none"
    /\ arg \in RunArgs
    /\ \E stray \in StrayPickles, okind \in {"absent", "file", "dir"} :
          res = [run |-> 1, status |-> -1, some |-> FALSE, parsed |-> NoFiles,
                 log |-> <<Event(1, "start", arg.out_dir, [mode |-> arg.mode])>>,
                 fs |-> [I |-> PathState("dir", stray, {}), O |-> PathState(okind, NoFiles, {})]]

\* lines 601-607: the output directory is made when the path does not exist
\* (os.mkdir may fail), and the run ends with status 1 when it is no directory
MainCheckOutDir ==
    /\ pc = "main"
    /\ \/ /\ ~exists(res.fs[arg.out_dir])
          /\ \/ /\ res' = [res EXCEPT !.fs[arg.out_dir].kind = "dir",
                                      !.log = Append(@, Event(res.run, "checked", arg.out_dir, NoFiles))]
                /\ pc' = "m_parse"
             \/ /\ res' = [res EXCEPT !.status = 1]
                /\ pc' = "m_raised"
       \/ /\ exists(res.fs[arg.out_dir])
          /\ IF isdir(res.fs[arg.out_dir])
             THEN /\ res' = [res EXCEPT !.log = Append(@, Event(res.run, "checked", arg.out_dir, NoFiles))]
                  /\ pc' = "m_parse"
             ELSE /\ res' = [res EXCEPT !.status = 1]
                  /\ pc' = "exit"
    /\ UNCHANGED <<tree, di, tables, calls, nodata, exc, arg>>

\* lines 609-613: parse(in_dir) is called in the modes that parse
MainParse ==
    /\ pc = "m_parse"
    /\ IF do_parse(arg.mode)
       THEN /\ pc' = "folders"
            /\ di' = 0
            /\ tables' = InitialTables
            /\ calls' = <<>>
            /\ nodata' = <<>>
            /\ exc' = "none"
            /\ res' = [res EXCEPT !.log = Append(@, Event(res.run, "parse", "I", NoFiles))]
       ELSE /\ pc' = "m_save"
            /\ UNCHANGED <<di, tables, calls, nodata, exc, res>>
    /\ UNCHANGED <<tree, arg>>

\* line 611: parse() has returned its tables, or its exception leaves main
MainParseReturn ==
    /\ arg.fn = "main"
    /\ \/ /\ pc = "done"
          /\ res' = [res EXCEPT !.some = TRUE, !.parsed = tables,
                                !.log = Append(@, Event(res.run, "parsed", "I", tables))]
          /\ pc' = "m_save"
       \/ /\ pc = "raised"
          /\ res' = [res EXCEPT !.status = 1]
          /\ pc' = "m_raised"
    /\ UNCHANGED <<tree, di, tables, calls, nodata, exc, arg>>

\* the files of a directory after the tables have been written into it
Written(d, tbls) ==
    [d EXCEPT !.pkls = [n \in DOMAIN d.pkls \cup DOMAIN tbls |->
                           IF n \in DOMAIN tbls THEN to_pickle(tbls[n]) ELSE d.pkls[n]],
              !.csvs = @ \cup DOMAIN tbls]

\* lines 615-620
MainSave ==
    /\ pc = "m_save"
    /\ IF res.some
       THEN res' = [res EXCEPT !.fs[arg.out_dir] = Written(@, res.parsed),
                               !.log = Append(@, Event(res.run, "save", arg.out_dir, res.parsed))]
       ELSE res' = res
    /\ pc' = "m_analyze"
    /\ UNCHANGED <<tree, di, tables, calls, nodata, exc, arg>>

\* lines 625-638: the pickles of in_dir, by name
LoadedResults(fs, a) == [n \in DOMAIN fs["I"].pkls |-> read_pickle(fs["I"].pkls[n])]

\* lines 622-641
MainAnalyze ==
    /\ pc = "m_analyze"
    /\ IF do_analyze(arg.mode)
       THEN \E t \in {IF res.some THEN res.parsed ELSE LoadedResults(res.fs, arg)} :
               res' = [res EXCEPT !.some = TRUE, !.parsed = t, !.status = 0,
                                  !.log = (IF res.some THEN @ ELSE Append(@, Event(res.run, "load", "I", t)))
                                          \o <<Event(res.run, "analyze", arg.out_dir, t)>>]
       ELSE res' = [res EXCEPT !.status = 0]
    /\ pc' = "m_end"
    /\ UNCHANGED <<tree, di, tables, calls, nodata, exc, arg>>

\* main is started again, on the file system the runs before have left
NextRun ==
    /\ pc \in {"m_end", "exit", "m_raised"}
    /\ res.run < MaxRuns
    /\ arg' \in RunArgs
    /\ res' = [res EXCEPT !.run = @ + 1, !.status = -1, !.some = FALSE, !.parsed = NoFiles,
                          !.log = Append(@, Event(res.run + 1, "start", arg'.out_dir, [mode |-> arg'.mode]))]
    /\ pc' = "main"
    /\ UNCHANGED <<tree, di, tables, calls, nodata, exc>>

NextMain ==
    \/ MainCheckOutDir \/ MainParse \/ NextFolder \/ PepPass \/ Ping \/ FixDtypes
    \/ MainParseReturn \/ MainSave \/ MainAnalyze \/ NextRun

SpecMain == InitMain /\ [][NextMain]_vars

\* the steps of main that parse, save, load or analyse
Processing == {"parse", "parsed", "save", "load", "analyze"}

\* C11: no call of parse(), no table write, no load and no call of
\* analyze_all happens in a run before the output-directory check of that run
\* has passed, the check passes only for a directory, and a run whose output
\* path is a regular file ends with exit status 1 having done none of them.
C11_CheckBeforeProcessing ==
    /\ \A i \in DOMAIN res.log :
          /\ res.log[i].ev \in Processing =>
                \E j \in 1..(i - 1) : res.log[j].run = res.log[i].run /\ res.log[j].ev = "checked"
          /\ res.log[i].ev = "checked" => res.fs[res.log[i].dir].kind = "dir"
    /\ pc = "exit" => res.status = 1 /\ res.fs[arg.out_dir].kind = "file"
    /\ res.fs[arg.out_dir].kind = "file" =>
          /\ pc \in {"main", "exit"}
          /\ \A i \in DOMAIN res.log : res.log[i].run = res.run => res.log[i].ev = "start"

\* a second run whose output path is a regular file has ended with status 1
\* and nothing done, after a first run with another output path that analysed
C11_Witness ==
    /\ pc = "exit" /\ res.status = 1 /\ res.run = 2 /\ arg.out_dir = "O"
    /\ res.fs["O"].kind = "file"
    /\ \E i \in DOMAIN res.log : res.log[i].run = 1 /\ res.log[i].ev = "analyze"
    /\ res.log[Len(res.log)].ev = "start"

\* the entries of the log of run r with the given step
EventsOf(r, ev) == SelectSeq(res.log, LAMBDA e : e.run = r /\ e.ev = ev)

\* the table is what fix_dtypes returns: normalising it again changes nothing
Normalized(df) == fix_dtypes(df).ok /\ fix_dtypes(df).df = df

\* C12: in every run and every mode analyze_all is called only with the
\* complete set of the eight named tables, each of them type-normalised.
C12_AnalyzeGetsNormalizedTables ==
    \A i \in DOMAIN res.log :
        res.log[i].ev = "analyze" =>
            /\ DOMAIN res.log[i].tables = Range(AllKinds)
            /\ \A k \in DOMAIN res.log[i].tables : Normalized(res.log[i].tables[k])

\* run r parsed only and saved its tables, and run r + 1 analysed only, with
\* the same output directory, and has ended
ParseThenAnalyze(r) ==
    /\ EventsOf(r, "save") # <<>>
    /\ EventsOf(r, "start")[1].tables.mode = "PARSE"
    /\ res.run = r + 1 /\ pc = "m_end"
    /\ arg.mode = "ANALYZE"
    /\ arg.out_dir = EventsOf(r, "start")[1].dir

\* C13: after a parse-only run that wrote its tables as O/<name>.pkl, an
\* analyze-only run with the same directories loads exactly these tables from
\* O and passes them to analyze_all, without a call of parse() and without a
\* table write.
C13_ReloadFromOutputDir ==
    \A r \in 1..(MaxRuns - 1) :
        ParseThenAnalyze(r) =>
            /\ EventsOf(r + 1, "parse") = <<>> /\ EventsOf(r + 1, "save") = <<>>
            /\ Len(EventsOf(r + 1, "analyze")) = 1
            /\ DOMAIN EventsOf(r + 1, "analyze")[1].tables = DOMAIN EventsOf(r, "save")[1].tables
            /\ \A k \in DOMAIN EventsOf(r, "save")[1].tables :
                  EventsOf(r + 1, "analyze")[1].tables[k] = EventsOf(r, "save")[1].tables[k]

====
